---------------------------- MODULE Spec2Model ----------------------------
(***************************************************************************)
(* Tiered topic cache of backend/cache_layer/cache.py.                     *)
(*                                                                         *)
(* The module-level OrderedDict CACHE maps a TopicKey to what was stored   *)
(* under it: a CacheNode (key, state, level) put there by the loader, or   *)
(* the bare TopicState that insert() stores.  TopicCacheManager keeps one  *)
(* occupancy counter per level (1 = Hot, 2 = Warm, 3 = Cold) and one       *)
(* "least occurring" node per level.  Every call of lookup() or insert()   *)
(* is one step of the model.                                               *)
(*                                                                         *)
(* Scores are floats in the program (access_count * 0.7 +                  *)
(* recency_boost * 0.3); the model keeps them exactly, as hundredths.      *)
(***************************************************************************)
EXTENDS Integers, Sequences, FiniteSets, TLC

---------------------------------------------------------------------------
(* Bounds of the model.                                                    *)

\* TopicKeys are 1..NumKeys (their order stands for the lexicographic one).
NumKeys == 3
\* Number of lookup()/insert() calls in one run.
MaxSteps == 2
\* Config.L1_CAPACITY, L2_CAPACITY, L3_CAPACITY (32, 128, 1024 in config.py),
\* scaled down so that tiers fill up with NumKeys keys.
L1_CAPACITY == 1
L2_CAPACITY == 1
L3_CAPACITY == 1

Keys == 1..NumKeys

---------------------------------------------------------------------------
(* Config (backend/config.py).                                             *)

\* RECENCY_BOOST = 0.2, in tenths.
RECENCY_BOOST_TENTHS == 2
L1_THRESHOLD == 20
L2_THRESHOLD == 8
L3_THRESHOLD == 3

---------------------------------------------------------------------------
(* Data model.                                                             *)

\* access_count values of the entries of a loaded snapshot and of the
\* TopicStates callers pass to insert(): one lookup takes 11 over
\* L2_THRESHOLD and 28 over L1_THRESHOLD, and leaves 0 under L3_THRESHOLD.
LoadAccessCounts == {0, 11, 28}

Hot == 1
Warm == 2
Cold == 3
Tiers == {Hot, Warm, Cold}

\* TopicState: the fields the cache logic and its contract are about.
\* (score is 0 in every TopicState that is loaded or passed to insert.)
TopicState(access_count, first_seen_ts) ==
    [access_count |-> access_count, first_seen_ts |-> first_seen_ts,
     score |-> 0]

\* The TopicStates callers pass to insert() (the loaded ones have
\* first_seen_ts 0).
InsertStates == {TopicState(0, 1), TopicState(5, 2)}

\* CacheNode: state and level (its key is the key it is stored under).
CacheNode(state, level) == [state |-> state, level |-> level]

\* CacheNode() of get_least_occuring_node: a new object with no attribute
\* set; `id` stands for its identity.
get_least_occuring_node(level) == [id |-> level]

\* isinstance(v, CacheNode) for a value stored in CACHE (one that has the
\* attributes .state and .level).
IsCacheNode(v) == DOMAIN v = {"state", "level"}

\* The TopicState of a stored value: the node's state, or the value itself.
StateOf(v) == IF IsCacheNode(v) THEN v.state ELSE v

---------------------------------------------------------------------------
(* OrderedDict CACHE: a sequence of <<key, value>> pairs, insertion order. *)

Has(cache, key) == \E i \in 1..Len(cache) : cache[i][1] = key

Get(cache, key) == cache[CHOOSE i \in 1..Len(cache) : cache[i][1] = key][2]

\* A dict assignment that always adds a pair (the mutant of SetItem).
SetItemAppend(cache, key, value) == Append(cache, <<key, value>>)

\* CACHE[key] = value: overwrite in place when the key is there, else append.
SetItem(cache, key, value) ==
    IF Has(cache, key)
    THEN [i \in 1..Len(cache) |->
             IF cache[i][1] = key THEN <<key, value>> ELSE cache[i]]
    ELSE Append(cache, <<key, value>>)

\* An attribute assignment on the object stored under key (node.level += 1,
\* node.state.access_count += 1): the dict itself is not written.
Update(cache, key, value) ==
    [i \in 1..Len(cache) |->
        IF cache[i][1] = key THEN <<key, value>> ELSE cache[i]]

\* The keys stored, and the positions holding a given key.
KeysOf(cache) == {cache[i][1] : i \in 1..Len(cache)}
Positions(cache, key) == {i \in 1..Len(cache) : cache[i][1] = key}

\* The keys whose stored value is a CacheNode of the given level.
Members(cache, level) ==
    {k \in KeysOf(cache) :
        \E i \in Positions(cache, k) :
            IsCacheNode(cache[i][2]) /\ cache[i][2].level = level}

---------------------------------------------------------------------------
VARIABLES
    CACHE,                    \* the OrderedDict
    l1_cache_count,           \* TopicCacheManager fields
    l2_cache_count,
    l3_cache_count,
    l1_least_occurace_node,
    l2_least_occurace_node,
    l3_least_occurace_node,
    op,                       \* the last call: [name, key, pre]; pre tells
                              \* what CACHE held under key as it was made
    ret,                      \* what the last call returned
    steps,                    \* number of calls so far
    fresh,                    \* loaded empty, and only new keys inserted since
    db,                       \* the persisted snapshot, what load() returns
                              \* (followed under SpecPersist only)
    status,                   \* how the construction of the manager ended
    calls,                    \* SpecConc: each caller's call in progress
    detached                  \* SpecConc: loaded CacheNodes that a caller
                              \* still holds but CACHE no longer does

vars == <<CACHE, l1_cache_count, l2_cache_count, l3_cache_count,
          l1_least_occurace_node, l2_least_occurace_node,
          l3_least_occurace_node, op, ret, steps, fresh, db, status,
          calls, detached>>

\* The manager's mutable state, as the record the operators below transform.
Self == [CACHE |-> CACHE,
         l1_cache_count |-> l1_cache_count,
         l2_cache_count |-> l2_cache_count,
         l3_cache_count |-> l3_cache_count,
         l1_least_occurace_node |-> l1_least_occurace_node,
         l2_least_occurace_node |-> l2_least_occurace_node,
         l3_least_occurace_node |-> l3_least_occurace_node]

\* Return values: lookup returns the node or -1; insert returns None.
Miss == -1
None == 0

---------------------------------------------------------------------------
(* TopicCacheManager.                                                      *)

\* score = access_count * 0.7 + recency_boost * 0.3, in hundredths.
Score(access_count) == access_count * 70 + RECENCY_BOOST_TENTHS * 3

\* score > threshold and score < threshold for a Config threshold.
Above(score, threshold) == score > threshold * 100
Below(score, threshold) == score < threshold * 100

\* What an operator on the manager returns: the state it leaves and whether
\* it raised an exception.
Returned(self) == [self |-> self, raised |-> FALSE]
Raised(self) == [self |-> self, raised |-> TRUE]

\* The key found by the loop `for key, value in CACHE.items(): if value ==
\* node: found = key` (the last match), or None.  CacheNode defines no
\* __eq__, so == is identity: a stored value matches a node only when it is
\* that very object.
KeyOfNode(cache, node) ==
    LET hits == {i \in 1..Len(cache) : cache[i][2] = node}
    IN  IF hits = {} THEN None
        ELSE cache[CHOOSE i \in hits : \A j \in hits : j <= i][1]

\* CACHE[topic_key] = node, node being the object already stored there.
Reassign(self, topic_key) ==
    [self EXCEPT !.CACHE = SetItem(@, topic_key, Get(@, topic_key))]

\* Case 2 of _promote: the least-occurring node of the full level is looked
\* up in CACHE and moved one level down; CACHE[None] raises KeyError.
Displace(self, topic_key, least, counter) ==
    LET found == KeyOfNode(self.CACHE, least)
    IN  IF ~Has(self.CACHE, found)
        THEN Raised(self)
        ELSE LET v == Get(self.CACHE, found)
                 c == Update(self.CACHE, found, [v EXCEPT !.level = @ - 1])
             IN  Returned(Reassign([self EXCEPT !.CACHE = c,
                                                ![counter] = @ - 1],
                                   topic_key))

\* _promote(topic_key, score)
_promote(self, topic_key, score) ==
    LET node == Get(self.CACHE, topic_key)
        s1 == [self EXCEPT !.CACHE =
                  Update(@, topic_key, [node EXCEPT !.level = @ + 1])]
    IN  IF Above(score, L2_THRESHOLD) /\ s1.l2_cache_count < L2_CAPACITY
        THEN Returned(Reassign([s1 EXCEPT !.l2_cache_count = @ + 1,
                                          !.l3_cache_count = @ - 1],
                               topic_key))
        ELSE IF Above(score, L1_THRESHOLD) /\ s1.l1_cache_count < L1_CAPACITY
        THEN Returned(Reassign([s1 EXCEPT !.l1_cache_count = @ + 1,
                                          !.l2_cache_count = @ - 1],
                               topic_key))
        ELSE IF Above(score, L2_THRESHOLD)
        THEN Displace(s1, topic_key, s1.l2_least_occurace_node,
                      "l2_cache_count")
        ELSE IF Above(score, L1_THRESHOLD)
        THEN Displace(s1, topic_key, s1.l1_least_occurace_node,
                      "l1_cache_count")
        ELSE Returned(s1)

\* A _demote that drops the node from CACHE (the mutant of _demote).
_demoteRemoving(self, node) ==
    [self EXCEPT !.CACHE = SelectSeq(@, LAMBDA pair : pair[2] # node)]

\* A _remove_topic that empties the cache (the mutant of _remove_topic).
_remove_topicClearing(self, node) == [self EXCEPT !.CACHE = << >>]

\* _demote(node) and _remove_topic(node): `pass`.
_demote(self, node) == self
_remove_topic(self, node) == self

\* The condition under which lookup calls _promote.
PromoteAlsoHot(level, score) ==
    \/ level <= 2 /\ Above(score, L1_THRESHOLD)
    \/ level = 3 /\ Above(score, L2_THRESHOLD)

ShouldPromote(level, score) ==
    \/ level = 2 /\ Above(score, L1_THRESHOLD)
    \/ level = 3 /\ Above(score, L2_THRESHOLD)

\* A miss that leaves a default entry behind (the mutant of LookupFailed).
LookupFailedStoring(self, key) ==
    [self |-> [self EXCEPT !.CACHE = SetItem(@, key, TopicState(0, 0))],
     ret |-> Miss]

\* The `except:` branch of lookup: whatever was raised, return -1.
LookupFailed(self, key) == [self |-> self, ret |-> Miss]

\* lookup(key): the state it leaves and the value it returns (the node is
\* identified by its key).
lookup(self, key) ==
    IF ~Has(self.CACHE, key)
    THEN LookupFailed(self, key)                    \* KeyError
    ELSE IF ~IsCacheNode(Get(self.CACHE, key))
    THEN LookupFailed(self, key)                    \* AttributeError: .state
    ELSE
      LET node == Get(self.CACHE, key)
          n1 == [node EXCEPT !.state.access_count = @ + 1]
          s1 == [self EXCEPT !.CACHE = Update(@, key, n1)]
      IN  IF n1.level = 0
          THEN [self |-> s1, ret |-> key]
          ELSE
            LET score == Score(n1.state.access_count)
                p == IF ShouldPromote(n1.level, score)
                     THEN _promote(s1, key, score)
                     ELSE Returned(s1)
            IN  IF p.raised
                THEN LookupFailed(p.self, key)
                ELSE
                  LET n2 == Get(p.self.CACHE, key)
                      s2 == IF n2.level = 2 /\ Below(score, L2_THRESHOLD)
                            THEN _demote(p.self, n2)
                            ELSE p.self
                      n3 == IF Has(s2.CACHE, key)
                            THEN Get(s2.CACHE, key)
                            ELSE n2
                      s3 == IF /\ n3.level = 3
                               /\ Below(score, L3_THRESHOLD)
                               /\ s2.l3_cache_count = L3_CAPACITY
                            THEN _remove_topic(s2, n3)
                            ELSE s2
                  IN  [self |-> s3, ret |-> key]

\* insert(key, state)
insert(self, key, state) ==
    LET s1 == IF self.l3_cache_count = L3_CAPACITY
              THEN _remove_topic(self, self.l3_least_occurace_node)
              ELSE self
    IN  [self |-> [s1 EXCEPT !.CACHE = SetItem(@, key, state)], ret |-> None]

---------------------------------------------------------------------------
(* The loader (load_cache.cache_loader) and TopicCacheManager.__init__.    *)

\* The snapshots cache_loader.load_cache() can put into CACHE: CacheNodes in
\* key order, every level within its capacity.
RECURSIVE SnapshotsFrom(_)
SnapshotsFrom(k) ==
    IF k > NumKeys THEN {<< >>}
    ELSE LET rest == SnapshotsFrom(k + 1)
             here == {<<k, CacheNode(TopicState(a, 0), l)>> :
                         a \in LoadAccessCounts, l \in Tiers}
         IN  rest \cup {<<e>> \o r : e \in here, r \in rest}

load_cache ==
    {c \in SnapshotsFrom(1) :
        /\ Cardinality(Members(c, Hot)) <= L1_CAPACITY
        /\ Cardinality(Members(c, Warm)) <= L2_CAPACITY
        /\ Cardinality(Members(c, Cold)) <= L3_CAPACITY}

\* cache_loader.get_cache_count(): the number of loaded entries per level.
get_cache_count(cache) ==
    <<Cardinality(Members(cache, Hot)),
      Cardinality(Members(cache, Warm)),
      Cardinality(Members(cache, Cold))>>

\* A constructor that assigns the three counts in the wrong order (the
\* mutant of __init__).
__init__swapped(cache) ==
    [CACHE |-> cache,
     l1_cache_count |-> get_cache_count(cache)[3],
     l2_cache_count |-> get_cache_count(cache)[2],
     l3_cache_count |-> get_cache_count(cache)[1],
     l3_least_occurace_node |-> get_least_occuring_node(3),
     l2_least_occurace_node |-> get_least_occuring_node(2),
     l1_least_occurace_node |-> get_least_occuring_node(1)]

\* TopicCacheManager.__init__, once load_cache() has filled CACHE.
__init__(cache) ==
    [CACHE |-> cache,
     l1_cache_count |-> get_cache_count(cache)[1],
     l2_cache_count |-> get_cache_count(cache)[2],
     l3_cache_count |-> get_cache_count(cache)[3],
     l3_least_occurace_node |-> get_least_occuring_node(3),
     l2_least_occurace_node |-> get_least_occuring_node(2),
     l1_least_occurace_node |-> get_least_occuring_node(1)]

\* The outcomes of the construction: the manager exists, or load_cache()
\* refused the snapshot and no manager was built.
Ready == "ready"
CapacityInconsistency == "CapacityInconsistency"

\* The manager's fields when no manager was built: CACHE is the module's
\* global and holds what load_cache() put there.
NoManager(cache) == [__init__(<< >>) EXCEPT !.CACHE = cache]

SetSelf(self) ==
    /\ CACHE' = self.CACHE
    /\ l1_cache_count' = self.l1_cache_count
    /\ l2_cache_count' = self.l2_cache_count
    /\ l3_cache_count' = self.l3_cache_count
    /\ l1_least_occurace_node' = self.l1_least_occurace_node
    /\ l2_least_occurace_node' = self.l2_least_occurace_node
    /\ l3_least_occurace_node' = self.l3_least_occurace_node

\* What CACHE holds under a key, for the record of the last call: whether
\* anything is stored, whether that is a CacheNode, and the node's level.
Pre(cache, key) ==
    LET node == Has(cache, key) /\ IsCacheNode(Get(cache, key))
    IN  [stored |-> Has(cache, key),
         node |-> node,
         level |-> IF node THEN Get(cache, key).level ELSE 0]

\* The state after TopicCacheManager(): load_cache() has read a snapshot
\* and accepted or refused it.
Constructed ==
    /\ \E snapshot \in SnapshotsFrom(1) :
         LET self == IF snapshot \in load_cache
                     THEN __init__(snapshot)
                     ELSE NoManager(snapshot)
         IN
           /\ status = IF snapshot \in load_cache
                       THEN Ready ELSE CapacityInconsistency
           /\ CACHE = self.CACHE
           /\ l1_cache_count = self.l1_cache_count
           /\ l2_cache_count = self.l2_cache_count
           /\ l3_cache_count = self.l3_cache_count
           /\ l3_least_occurace_node = self.l3_least_occurace_node
           /\ l2_least_occurace_node = self.l2_least_occurace_node
           /\ l1_least_occurace_node = self.l1_least_occurace_node
    /\ op = [name |-> "init", key |-> None, pre |-> Pre(<< >>, None)]
    /\ ret = None
    /\ steps = 0
    /\ fresh = (status = Ready /\ CACHE = << >>)

\* No caller is inside a call, and no CacheNode is held outside CACHE.
NoObject == [id |-> 0]
Sequential == calls = << >> /\ detached = [k \in Keys |-> NoObject]

Init == Constructed /\ db = << >> /\ Sequential

\* The same, with the persisted snapshot followed: it is what was loaded.
InitPersist == Constructed /\ db = CACHE /\ Sequential

Lookup(key) ==
    /\ status = Ready
    /\ steps < MaxSteps
    /\ LET r == lookup(Self, key)
       IN  SetSelf(r.self) /\ ret' = r.ret
    /\ op' = [name |-> "lookup", key |-> key, pre |-> Pre(CACHE, key)]
    /\ steps' = steps + 1
    /\ fresh' = FALSE
    /\ UNCHANGED <<db, status, calls, detached>>

Insert(key, state) ==
    /\ status = Ready
    /\ steps < MaxSteps
    /\ LET r == insert(Self, key, state)
       IN  SetSelf(r.self) /\ ret' = r.ret
    /\ op' = [name |-> "insert", key |-> key, pre |-> Pre(CACHE, key)]
    /\ steps' = steps + 1
    /\ fresh' = (fresh /\ ~Has(CACHE, key))
    /\ UNCHANGED <<db, status, calls, detached>>

Next ==
    \/ \E key \in Keys : Lookup(key)
    \/ \E key \in Keys, state \in InsertStates : Insert(key, state)

Spec == Init /\ [][Next]_vars

SpecPersist == InitPersist /\ [][Next]_vars

---------------------------------------------------------------------------
(* Several callers of the one manager.  Nothing in cache.py takes a lock,  *)
(* so the calls interleave statement by statement, and an augmented        *)
(* assignment (x += 1) is a read followed by a write.                      *)

NumThreads == 2
Threads == 1..NumThreads

\* A caller's frame: where it is, the call's arguments, and its locals.
Idle == [pc |-> "idle", name |-> "none", key |-> None,
         arg |-> TopicState(0, 0), tmp |-> 0, score |-> 0, todo |-> << >>]

\* The CacheNode loaded under key k is one object for the whole run: it is
\* in CACHE while CACHE[k] is a CacheNode, and otherwise lives on only in
\* the frames of the lookups that fetched it.
Attached(cache, k) == Has(cache, k) /\ IsCacheNode(Get(cache, k))
Referenced(frames, k) ==
    \E t \in Threads :
        /\ frames[t].name = "lookup"
        /\ frames[t].key = k
        /\ frames[t].pc \notin {"idle", "get"}

\* The value of that object, and an attribute assignment on it.
ObjVal(cache, det, k) == IF Attached(cache, k) THEN Get(cache, k) ELSE det[k]
ObjWrite(self, det, k, v) ==
    IF Attached(self.CACHE, k)
    THEN [self |-> [self EXCEPT !.CACHE = Update(@, k, v)], det |-> det]
    ELSE [self |-> self, det |-> [det EXCEPT ![k] = v]]

Node(t) == ObjVal(CACHE, detached, calls[t].key)

\* A caller that stays at the statement it is at (the mutant of Goto).
GotoStaying(t, pc) == calls[t]

\* One statement of caller t: the manager, t's frame and the unattached
\* objects it leaves.  Objects no frame refers to any more are dropped.
Commit(t, self, frame, det) ==
    LET frames == [calls EXCEPT ![t] = frame]
    IN  /\ SetSelf(self)
        /\ calls' = frames
        /\ detached' = [k \in Keys |->
                           IF Referenced(frames, k) /\ ~Attached(self.CACHE, k)
                           THEN det[k] ELSE NoObject]

At(t, pc) == status = Ready /\ calls[t].pc = pc
Goto(t, pc) == [calls[t] EXCEPT !.pc = pc]
Running == UNCHANGED <<op, ret, steps, fresh, db, status>>
Return(value) == ret' = value /\ UNCHANGED <<op, steps, fresh, db, status>>

\* The `except:` branch of lookup, reached from statement t is at.
Fail(t) ==
    LET r == LookupFailed(Self, calls[t].key)
    IN  Commit(t, r.self, Idle, detached) /\ Return(r.ret)

CallLookup(t, key) ==
    /\ At(t, "idle")
    /\ steps < MaxSteps
    /\ Commit(t, Self, [Idle EXCEPT !.pc = "get", !.name = "lookup",
                                    !.key = key], detached)
    /\ op' = [name |-> "lookup", key |-> key, pre |-> Pre(CACHE, key)]
    /\ steps' = steps + 1
    /\ fresh' = FALSE
    /\ UNCHANGED <<ret, db, status>>

CallInsert(t, key, state) ==
    /\ At(t, "idle")
    /\ steps < MaxSteps
    /\ Commit(t, Self, [Idle EXCEPT !.pc = "if_l3", !.name = "insert",
                                    !.key = key, !.arg = state], detached)
    /\ op' = [name |-> "insert", key |-> key, pre |-> Pre(CACHE, key)]
    /\ steps' = steps + 1
    /\ fresh' = (fresh /\ ~Has(CACHE, key))
    /\ UNCHANGED <<ret, db, status>>

\* node = CACHE[key]: KeyError when absent; a stored TopicState has no
\* .state, so the next statement raises AttributeError.
LookupGet(t) ==
    /\ At(t, "get")
    /\ IF Attached(CACHE, calls[t].key)
       THEN Commit(t, Self, Goto(t, "ac_rd"), detached) /\ Running
       ELSE Fail(t)

\* node.state.access_count += 1
AccessCountRead(t) ==
    /\ At(t, "ac_rd")
    /\ Commit(t, Self, [Goto(t, "ac_wr") EXCEPT
                           !.tmp = Node(t).state.access_count], detached)
    /\ Running

AccessCountWrite(t) ==
    /\ At(t, "ac_wr")
    /\ LET w == ObjWrite(Self, detached, calls[t].key,
                         [Node(t) EXCEPT
                             !.state.access_count = calls[t].tmp + 1])
       IN  Commit(t, w.self, [Goto(t, "score") EXCEPT !.tmp = 0], w.det)
    /\ Running

\* if node.level != 0: score = ...; otherwise return node
ComputeScore(t) ==
    /\ At(t, "score")
    /\ IF Node(t).level = 0
       THEN Commit(t, Self, Idle, detached) /\ Return(calls[t].key)
       ELSE /\ Commit(t, Self,
                      [Goto(t, "test") EXCEPT
                          !.score = Score(Node(t).state.access_count)],
                      detached)
            /\ Running

\* if (node.level == 2 and ...) or (node.level == 3 and ...): _promote(...)
TestPromote(t) ==
    /\ At(t, "test")
    /\ Commit(t, Self,
              IF ShouldPromote(Node(t).level, calls[t].score)
              THEN Goto(t, "p_get") ELSE Goto(t, "tail"),
              detached)
    /\ Running

\* _promote: node = CACHE[topic_key]; a TopicState stored meanwhile has no
\* .level, so node.level += 1 raises AttributeError.
PromoteGet(t) ==
    /\ At(t, "p_get")
    /\ IF Attached(CACHE, calls[t].key)
       THEN Commit(t, Self, Goto(t, "lv_rd"), detached) /\ Running
       ELSE Fail(t)

\* node.level += 1
LevelRead(t) ==
    /\ At(t, "lv_rd")
    /\ Commit(t, Self, [Goto(t, "lv_wr") EXCEPT !.tmp = Node(t).level],
              detached)
    /\ Running

LevelWrite(t) ==
    /\ At(t, "lv_wr")
    /\ LET w == ObjWrite(Self, detached, calls[t].key,
                         [Node(t) EXCEPT !.level = calls[t].tmp + 1])
       IN  Commit(t, w.self, [Goto(t, "if_l2") EXCEPT !.tmp = 0], w.det)
    /\ Running

\* if score > L2_THRESHOLD and self.l2_cache_count < L2_CAPACITY
IfL2(t) ==
    /\ At(t, "if_l2")
    /\ Commit(t, Self,
              IF /\ Above(calls[t].score, L2_THRESHOLD)
                 /\ l2_cache_count < L2_CAPACITY
              THEN [Goto(t, "cnt_rd") EXCEPT
                       !.todo = << <<"l2_cache_count", 1>>,
                                   <<"l3_cache_count", -1>> >>]
              ELSE Goto(t, "if_l1"),
              detached)
    /\ Running

\* if score > L1_THRESHOLD and self.l1_cache_count < L1_CAPACITY
IfL1(t) ==
    /\ At(t, "if_l1")
    /\ Commit(t, Self,
              IF /\ Above(calls[t].score, L1_THRESHOLD)
                 /\ l1_cache_count < L1_CAPACITY
              THEN [Goto(t, "cnt_rd") EXCEPT
                       !.todo = << <<"l1_cache_count", 1>>,
                                   <<"l2_cache_count", -1>> >>]
              ELSE Goto(t, "case2"),
              detached)
    /\ Running

\* self.lN_cache_count += 1 and -= 1, the next one of the branch taken
CounterRead(t) ==
    /\ At(t, "cnt_rd")
    /\ Commit(t, Self,
              [Goto(t, "cnt_wr") EXCEPT !.tmp = Self[calls[t].todo[1][1]]],
              detached)
    /\ Running

CounterWrite(t) ==
    /\ At(t, "cnt_wr")
    /\ LET counter == calls[t].todo[1][1]
           rest == Tail(calls[t].todo)
       IN  Commit(t,
                  [Self EXCEPT ![counter] = calls[t].tmp + calls[t].todo[1][2]],
                  [Goto(t, IF rest = << >> THEN "set" ELSE "cnt_rd")
                      EXCEPT !.tmp = 0, !.todo = rest],
                  detached)
    /\ Running

\* CACHE[topic_key] = node; return
PromoteSet(t) ==
    /\ At(t, "set")
    /\ Commit(t,
              [Self EXCEPT !.CACHE = SetItem(@, calls[t].key, Node(t))],
              Goto(t, "tail"), detached)
    /\ Running

\* Case 2 of _promote.  The stored least-occurring node is in CACHE under no
\* key, whatever the other callers do meanwhile, so the search finds None.
Case2(t) ==
    /\ At(t, "case2")
    /\ LET r == IF Above(calls[t].score, L2_THRESHOLD)
                THEN Displace(Self, calls[t].key, l2_least_occurace_node,
                              "l2_cache_count")
                ELSE IF Above(calls[t].score, L1_THRESHOLD)
                THEN Displace(Self, calls[t].key, l1_least_occurace_node,
                              "l1_cache_count")
                ELSE Returned(Self)
       IN  IF r.raised
           THEN Fail(t)
           ELSE Commit(t, r.self, Goto(t, "tail"), detached) /\ Running

\* The two trailing ifs of lookup, and return node.
LookupTail(t) ==
    /\ At(t, "tail")
    /\ LET node == Node(t)
           s1 == IF node.level = 2 /\ Below(calls[t].score, L2_THRESHOLD)
                 THEN _demote(Self, node)
                 ELSE Self
           s2 == IF /\ node.level = 3
                    /\ Below(calls[t].score, L3_THRESHOLD)
                    /\ s1.l3_cache_count = L3_CAPACITY
                 THEN _remove_topic(s1, node)
                 ELSE s1
       IN  Commit(t, s2, Idle, detached)
    /\ Return(calls[t].key)

\* insert: if self.l3_cache_count == L3_CAPACITY: self._remove_topic(...)
InsertIf(t) ==
    /\ At(t, "if_l3")
    /\ Commit(t,
              IF l3_cache_count = L3_CAPACITY
              THEN _remove_topic(Self, l3_least_occurace_node)
              ELSE Self,
              Goto(t, "i_set"), detached)
    /\ Running

\* insert: CACHE[key] = state.  A CacheNode stored under key leaves CACHE.
InsertSet(t) ==
    /\ At(t, "i_set")
    /\ Commit(t,
              [Self EXCEPT !.CACHE = SetItem(@, calls[t].key, calls[t].arg)],
              Idle,
              IF Attached(CACHE, calls[t].key)
              THEN [detached EXCEPT ![calls[t].key] = Get(CACHE, calls[t].key)]
              ELSE detached)
    /\ Return(None)

InitConc ==
    /\ Constructed
    /\ status = Ready
    /\ db = << >>
    /\ calls = [t \in Threads |-> Idle]
    /\ detached = [k \in Keys |-> NoObject]

NextConc ==
    \/ \E t \in Threads, key \in Keys : CallLookup(t, key)
    \/ \E t \in Threads, key \in Keys, state \in InsertStates :
          CallInsert(t, key, state)
    \/ \E t \in Threads : LookupGet(t)
    \/ \E t \in Threads : AccessCountRead(t)
    \/ \E t \in Threads : AccessCountWrite(t)
    \/ \E t \in Threads : ComputeScore(t)
    \/ \E t \in Threads : TestPromote(t)
    \/ \E t \in Threads : PromoteGet(t)
    \/ \E t \in Threads : LevelRead(t)
    \/ \E t \in Threads : LevelWrite(t)
    \/ \E t \in Threads : IfL2(t)
    \/ \E t \in Threads : IfL1(t)
    \/ \E t \in Threads : CounterRead(t)
    \/ \E t \in Threads : CounterWrite(t)
    \/ \E t \in Threads : PromoteSet(t)
    \/ \E t \in Threads : Case2(t)
    \/ \E t \in Threads : LookupTail(t)
    \/ \E t \in Threads : InsertIf(t)
    \/ \E t \in Threads : InsertSet(t)

SpecConc == InitConc /\ [][NextConc]_vars

---------------------------------------------------------------------------
(* The callers under a fair scheduler: a caller inside a call is not       *)
(* suspended forever.  No statement of cache.py waits for another caller,  *)
(* so the next statement of a started call is always enabled and weak      *)
(* fairness per caller is what the scheduler gives.  Calling is never      *)
(* forced.                                                                 *)

Step(t) ==
    \/ LookupGet(t) \/ AccessCountRead(t) \/ AccessCountWrite(t)
    \/ ComputeScore(t) \/ TestPromote(t) \/ PromoteGet(t)
    \/ LevelRead(t) \/ LevelWrite(t) \/ IfL2(t) \/ IfL1(t)
    \/ CounterRead(t) \/ CounterWrite(t) \/ PromoteSet(t) \/ Case2(t)
    \/ LookupTail(t) \/ InsertIf(t) \/ InsertSet(t)

\* The snapshots followed under fairness, up to a renaming of the keys: key
\* k, when loaded, is in tier TierOfKey(k), with an access_count one lookup
\* short of a promotion threshold.
TierOfKey(k) == ((k - 1) % Cardinality(Tiers)) + 1

InitFair ==
    /\ InitConc
    /\ \A i \in 1..Len(CACHE) :
          /\ CACHE[i][2].level = TierOfKey(CACHE[i][1])
          /\ Above(Score(CACHE[i][2].state.access_count + 1), L2_THRESHOLD)

SpecFair ==
    /\ InitFair
    /\ [][NextConc]_vars
    /\ \A t \in Threads : WF_vars(Step(t))

---------------------------------------------------------------------------
(* Vocabulary of the properties.                                           *)

capacity(t) ==
    IF t = Hot THEN L1_CAPACITY
    ELSE IF t = Warm THEN L2_CAPACITY
    ELSE L3_CAPACITY

occupancy(t) ==
    IF t = Hot THEN l1_cache_count
    ELSE IF t = Warm THEN l2_cache_count
    ELSE l3_cache_count

\* The last step was a call of lookup / insert (and not a stuttering step).
LookupStep == steps' = steps + 1 /\ op'.name = "lookup"
InsertStep == steps' = steps + 1 /\ op'.name = "insert"

\* The call recorded in o found its key stored as a CacheNode of tier t.
FoundIn(o, t) ==
    o.pre.node /\ o.pre.level = t

\* leastValuable(t) of the contract: lowest access_count, then oldest
\* first_seen_ts, then smallest key; None when the tier is empty.
Before(cache, a, b) ==
    LET sa == Get(cache, a).state
        sb == Get(cache, b).state
    IN  \/ sa.access_count < sb.access_count
        \/ /\ sa.access_count = sb.access_count
           /\ sa.first_seen_ts < sb.first_seen_ts
        \/ /\ sa.access_count = sb.access_count
           /\ sa.first_seen_ts = sb.first_seen_ts
           /\ a <= b

leastValuable(cache, t) ==
    IF Members(cache, t) = {} THEN None
    ELSE CHOOSE a \in Members(cache, t) :
             \A b \in Members(cache, t) : Before(cache, a, b)

---------------------------------------------------------------------------
\* C1: in every reachable state, for every tier t, the number of entries
\* whose tier is t is at most capacity(t).
C1_OccupancyWithinCapacity ==
    status = Ready =>
        \A t \in Tiers : Cardinality(Members(CACHE, t)) <= capacity(t)

\* C2: in every reachable state, every TopicKey is stored in at most one
\* entry of CACHE (hence in at most one tier).
C2_KeyInAtMostOneEntry ==
    \A k \in Keys : Cardinality(Positions(CACHE, k)) <= 1

\* C2 witness: an insert under a key that was already stored has happened,
\* next to another stored key.
C2_Witness_ReinsertedKey ==
    /\ op.name = "insert"
    /\ op.pre.stored
    /\ Has(CACHE, op.key)
    /\ Len(CACHE) >= 2

\* C3: in every reachable state, each tier's occupancy counter equals the
\* number of stored entries whose tier is that tier.
C3_CounterEqualsMembers ==
    status = Ready =>
        \A t \in Tiers : occupancy(t) = Cardinality(Members(CACHE, t))

\* C4: a lookup of a key that is not in the cache returns Miss and changes
\* neither CACHE nor any tier's occupancy counter.
C4_MissChangesNothing ==
    [][(LookupStep /\ ~Has(CACHE, op'.key))
          => (ret' = Miss /\ Self' = Self)]_vars

\* C4 witness: a lookup of an absent key has returned while other keys are
\* stored.
C4_Witness_MissOnAbsentKey ==
    /\ op.name = "lookup"
    /\ ~op.pre.stored
    /\ ret = Miss
    /\ CACHE # << >>

\* C5: an insert of a key that is not present creates exactly one entry for
\* it, with tier Cold and access_count 0, after evicting leastValuable(Cold)
\* when Cold is at capacity, and leaves the Hot and Warm entries and the Hot
\* and Warm occupancy unchanged.
C5_InsertCreatesColdEntry ==
    [][(InsertStep /\ ~Has(CACHE, op'.key)) =>
          /\ Cardinality(Positions(CACHE', op'.key)) = 1
          /\ op'.key \in Members(CACHE', Cold)
          /\ Get(CACHE', op'.key).state.access_count = 0
          /\ Cardinality(Members(CACHE, Cold)) = L3_CAPACITY
                => ~Has(CACHE', leastValuable(CACHE, Cold))
          /\ \A t \in {Hot, Warm} :
                /\ Members(CACHE', t) = Members(CACHE, t)
                /\ \A k \in Members(CACHE, t) : Get(CACHE', k) = Get(CACHE, k)
                /\ occupancy(t)' = occupancy(t)]_vars

\* C6: after N > capacity(Cold) inserts of distinct keys into a cache loaded
\* empty, with no lookup in between, N - capacity(Cold) entries have been
\* evicted: exactly capacity(Cold) keys are stored, all in Cold, and Hot and
\* Warm are empty.
C6_InsertsEvictDownToCapacity ==
    (fresh /\ steps > L3_CAPACITY) =>
        /\ Cardinality(KeysOf(CACHE)) = L3_CAPACITY
        /\ Members(CACHE, Cold) = KeysOf(CACHE)
        /\ Members(CACHE, Hot) = {}
        /\ Members(CACHE, Warm) = {}

\* C7: an insert of a key that is already present acts as one lookup of
\* that key: it leaves the state that lookup leaves, so it neither adds an
\* entry nor overwrites the stored state or tier.
C7_ReinsertIsLookup ==
    [][(InsertStep /\ Has(CACHE, op'.key))
          => Self' = lookup(Self, op'.key).self]_vars

\* C8: a lookup of a Cold entry whose recomputed score exceeds
\* promoteToWarmThreshold leaves the entry in Warm, and a lookup of a Warm
\* entry whose score exceeds promoteToWarmThreshold but not
\* promoteToHotThreshold leaves it in Warm.
C8_PromotedToWarmOnce ==
    [][(LookupStep /\ (FoundIn(op', Cold) \/ FoundIn(op', Warm))) =>
          LET score == Score(Get(CACHE, op'.key).state.access_count + 1)
          IN  /\ (FoundIn(op', Cold) /\ Above(score, L2_THRESHOLD))
                    => op'.key \in Members(CACHE', Warm)
              /\ (/\ FoundIn(op', Warm)
                  /\ Above(score, L2_THRESHOLD)
                  /\ ~Above(score, L1_THRESHOLD))
                    => op'.key \in Members(CACHE', Warm)]_vars

\* C9: when Warm is at capacity and a lookup takes a Cold entry's score over
\* promoteToWarmThreshold, then after the lookup the looked-up entry is in
\* Warm, the entry that was Warm's least valuable is in Cold, and Warm is
\* exactly at capacity.
C9_PromoteIntoFullWarm ==
    [][(/\ LookupStep
        /\ FoundIn(op', Cold)
        /\ Above(Score(Get(CACHE, op'.key).state.access_count + 1),
                 L2_THRESHOLD)
        /\ Cardinality(Members(CACHE, Warm)) = L2_CAPACITY) =>
          /\ op'.key \in Members(CACHE', Warm)
          /\ leastValuable(CACHE, Warm) \in Members(CACHE', Cold)
          /\ Cardinality(Members(CACHE', Warm)) = L2_CAPACITY]_vars

\* C10: a lookup of a key whose entry is in Hot leaves that entry in Hot,
\* whatever its score.
C10_HotStaysHot ==
    [][(LookupStep /\ FoundIn(op', Hot))
          => op'.key \in Members(CACHE', Hot)]_vars

\* C10 witness: a lookup of a Hot entry has returned the entry, with a
\* score above promoteToHotThreshold.
C10_Witness_HotLookedUp ==
    /\ op.name = "lookup"
    /\ FoundIn(op, Hot)
    /\ ret = op.key
    /\ Above(Score(Get(CACHE, op.key).state.access_count), L1_THRESHOLD)

\* C11: no step removes from the cache a key whose entry is in Hot or in
\* Warm.
C11_NoRemovalFromHotOrWarm ==
    [][\A i \in 1..Len(CACHE) :
          (IsCacheNode(CACHE[i][2]) /\ CACHE[i][2].level \in {Hot, Warm})
             => Has(CACHE', CACHE[i][1])]_vars

\* C11 witness: a lookup found its entry in Warm with a score below
\* promoteToWarmThreshold (so _demote was called on it) next to a Hot entry,
\* and both keys are still stored.
C11_Witness_DemoteCalled ==
    /\ op.name = "lookup"
    /\ FoundIn(op, Warm)
    /\ ret = op.key
    /\ Has(CACHE, op.key)
    /\ Below(Score(StateOf(Get(CACHE, op.key)).access_count), L2_THRESHOLD)
    /\ Members(CACHE, Hot) # {}

\* C12: for every key that stays stored across a step, access_count does
\* not decrease, changes only in a lookup or insert of that same key, and
\* first_seen_ts does not change.
C12_CountersMonotonic ==
    [][\A k \in Keys : (Has(CACHE, k) /\ Has(CACHE', k)) =>
          LET old == StateOf(Get(CACHE, k))
              new == StateOf(Get(CACHE', k))
          IN  /\ new.access_count >= old.access_count
              /\ new.access_count # old.access_count
                    => (op'.key = k /\ op'.name \in {"lookup", "insert"})
              /\ new.first_seen_ts = old.first_seen_ts]_vars

\* C13: under SpecConc, each call runs in one exclusive critical section
\* (at most one caller is inside lookup or insert at a time), so that in no
\* reachable state a tier holds more entries than its capacity or a tier's
\* counter differs from the number of entries stored in that tier.
C13_ExclusiveCriticalSection ==
    /\ Cardinality({t \in DOMAIN calls : calls[t].pc # "idle"}) <= 1
    /\ status = Ready =>
         \A t \in Tiers :
            /\ Cardinality(Members(CACHE, t)) <= capacity(t)
            /\ occupancy(t) = Cardinality(Members(CACHE, t))

\* C15 (under SpecPersist): once the manager is built, and with every
\* notification issued so far applied, load() returns the (key, state,
\* tier) entries the cache holds in memory.
C15_RoundTrip ==
    status = Ready =>
        {db[i] : i \in 1..Len(db)} = {CACHE[i] : i \in 1..Len(CACHE)}

\* C16: a lookup of a key that is stored never returns what a lookup of an
\* absent key returns.
C16_FailureIsNotMiss ==
    (op.name = "lookup" /\ op.pre.stored) => ret # Miss

C18_LookupCountsAndScores ==
    [][(LookupStep /\ Has(CACHE, op'.key)) =>
          /\ Has(CACHE', op'.key)
          /\ LET old == StateOf(Get(CACHE, op'.key))
                 new == StateOf(Get(CACHE', op'.key))
             IN  /\ new.access_count = old.access_count + 1
                 /\ new.score = Score(new.access_count)]_vars

\* C19: when a lookup finds a Warm entry whose score exceeds
\* promoteToHotThreshold while Hot has a free slot, the entry is in Hot
\* afterwards, Hot's occupancy is one higher, Warm's one lower, Cold's
\* unchanged, every other entry keeps its tier and no key is removed.
C19_PromoteToFreeHot ==
    [][(/\ LookupStep
        /\ FoundIn(op', Warm)
        /\ Above(Score(Get(CACHE, op'.key).state.access_count + 1),
                 L1_THRESHOLD)
        /\ occupancy(Hot) < L1_CAPACITY) =>
          /\ op'.key \in Members(CACHE', Hot)
          /\ occupancy(Hot)' = occupancy(Hot) + 1
          /\ occupancy(Warm)' = occupancy(Warm) - 1
          /\ occupancy(Cold)' = occupancy(Cold)
          /\ KeysOf(CACHE') = KeysOf(CACHE)
          /\ \A k \in KeysOf(CACHE) \ {op'.key} :
                Pre(CACHE', k) = Pre(CACHE, k)]_vars

\* C20: when a lookup finds a Warm entry whose score is below
\* promoteToWarmThreshold, the entry is in Cold when the lookup returns, and
\* Cold holds no more entries than its capacity.
C20_DemoteToCold ==
    [][(/\ LookupStep
        /\ FoundIn(op', Warm)
        /\ Below(Score(Get(CACHE, op'.key).state.access_count + 1),
                 L2_THRESHOLD)) =>
          /\ op'.key \in Members(CACHE', Cold)
          /\ Cardinality(Members(CACHE', Cold)) <= L3_CAPACITY]_vars

\* C21: when a lookup finds a Cold entry whose score is below
\* evictThreshold while Cold is exactly at capacity, the entry is removed:
\* Cold's occupancy is one lower and a lookup of the same key made next
\* returns Miss.  With Cold below capacity the entry is not removed.
C21_EvictOnLookup ==
    [][(/\ LookupStep
        /\ FoundIn(op', Cold)
        /\ Below(Score(Get(CACHE, op'.key).state.access_count + 1),
                 L3_THRESHOLD)) =>
          IF occupancy(Cold) = L3_CAPACITY
          THEN /\ ~Has(CACHE', op'.key)
               /\ occupancy(Cold)' = occupancy(Cold) - 1
               /\ lookup(Self', op'.key).ret = Miss
          ELSE Has(CACHE', op'.key)]_vars

\* The promotion a lookup is about to make, from the state the call finds:
\* the tier the entry is to enter, or None.
targetTier(self, key) ==
    IF ~(Has(self.CACHE, key) /\ IsCacheNode(Get(self.CACHE, key)))
    THEN None
    ELSE LET node == Get(self.CACHE, key)
             score == Score(node.state.access_count + 1)
         IN  IF node.level = Cold /\ Above(score, L2_THRESHOLD) THEN Warm
             ELSE IF node.level = Warm /\ Above(score, L1_THRESHOLD) THEN Hot
             ELSE None

\* C22: when a lookup promotes an entry into a tier that is full, the entry
\* that was that tier's least valuable is still in the cache afterwards,
\* one tier down, with nothing but its tier changed.
C22_DisplacedMovesOneTierDown ==
    [][(/\ LookupStep
        /\ targetTier(Self, op'.key) # None
        /\ Cardinality(Members(CACHE, targetTier(Self, op'.key)))
              = capacity(targetTier(Self, op'.key))) =>
          LET displaced == leastValuable(CACHE, targetTier(Self, op'.key))
          IN  /\ Has(CACHE', displaced)
              /\ Get(CACHE', displaced) =
                    [Get(CACHE, displaced) EXCEPT !.level = @ + 1]]_vars

\* C23: no single lookup or insert removes more than one entry from the
\* cache, a promotion into a full tier whose lower tier is full included.
C23_AtMostOneRemoval ==
    [][Cardinality({i \in 1..Len(CACHE) : ~Has(CACHE', CACHE[i][1])}) <= 1]_vars

\* C23 witness: a lookup has tried to promote a Cold entry while Warm was
\* full and Cold was counted full, and the key is still stored.
C23_Witness_PromotionWithBothTiersFull ==
    /\ op.name = "lookup"
    /\ FoundIn(op, Cold)
    /\ ret = Miss
    /\ Cardinality(Members(CACHE, Warm)) = L2_CAPACITY
    /\ l3_cache_count = L3_CAPACITY
    /\ Has(CACHE, op.key)

\* C24: every tier change of an entry moves it to an adjacent tier, a
\* promotion to the next hotter one (Cold to Warm, Warm to Hot) and a
\* demotion to the next colder one, so that every stored entry's tier is
\* always one of Hot, Warm, Cold.
C24_AdjacentTierMoves ==
    [][/\ \A i \in 1..Len(CACHE') :
             IsCacheNode(CACHE'[i][2]) => CACHE'[i][2].level \in Tiers
       /\ \A i \in 1..Len(CACHE) :
             LET k == CACHE[i][1]
                 old == CACHE[i][2]
             IN  (/\ IsCacheNode(old)
                  /\ Has(CACHE', k)
                  /\ IsCacheNode(Get(CACHE', k))
                  /\ Get(CACHE', k).level # old.level) =>
                    IF LookupStep /\ op'.key = k /\ targetTier(Self, k) # None
                    THEN Get(CACHE', k).level = old.level - 1
                    ELSE Get(CACHE', k).level = old.level + 1]_vars

\* The manager's least-valuable index of a tier.
leastIndex(t) ==
    IF t = Hot THEN l1_least_occurace_node
    ELSE IF t = Warm THEN l2_least_occurace_node
    ELSE l3_least_occurace_node

\* C25: in every reachable state, the least-valuable index of each tier
\* refers to the entry of that tier with the lowest access_count (ties: the
\* oldest first_seen_ts, then the smallest key), and to no entry exactly
\* when the tier is empty.
C25_LeastValuableIndex ==
    status = Ready =>
        \A t \in Tiers :
            KeyOfNode(CACHE, leastIndex(t)) = leastValuable(CACHE, t)

\* C26: under SpecFair, every call of lookup or insert that has started
\* eventually returns, whatever the other callers do meanwhile.
C26_EveryCallReturns ==
    \A t \in Threads : (calls[t].pc # "idle") ~> (calls[t].pc = "idle")

\* C26 witness: every call has started and returned, the last one started
\* being a lookup that promoted a Cold entry with Warm full and Cold counted
\* full.
C26_Witness_CascadeReturned ==
    /\ calls = [t \in Threads |-> Idle]
    /\ steps = MaxSteps
    /\ op.name = "lookup"
    /\ FoundIn(op, Cold)
    /\ Attached(CACHE, op.key)
    /\ Get(CACHE, op.key).level = Cold + 1
    /\ Cardinality(Members(CACHE, Warm)) = L2_CAPACITY
    /\ l2_cache_count = L2_CAPACITY
    /\ l3_cache_count = L3_CAPACITY

\* C27: whenever a lookup of a stored key triggers a promotion, the key is
\* still in the cache and in the tier it was promoted to when the lookup
\* returns, and the lookup returns the entry.
C27_PromotedEntryInTarget ==
    [][(LookupStep /\ targetTier(Self, op'.key) # None) =>
          /\ Has(CACHE', op'.key)
          /\ op'.key \in Members(CACHE', targetTier(Self, op'.key))
          /\ ret' = op'.key]_vars

\* The score of the entry stored under key: a function of its access_count
\* alone, recency_boost being a constant.
scoreOf(cache, key) == Score(StateOf(Get(cache, key)).access_count)

\* C28: access_count only grows, so the score of an entry never gets lower
\* while its key is stored and no lookup of the key finds it lower than an
\* earlier lookup left it; and a lookup of a key that the lookup before it
\* promoted out of Cold does not leave the entry in Cold.
C28_ScoreNeverDecreases ==
    [][/\ \A i \in 1..Len(CACHE) :
             Has(CACHE', CACHE[i][1]) =>
                scoreOf(CACHE', CACHE[i][1]) >= scoreOf(CACHE, CACHE[i][1])
       /\ (/\ LookupStep
           /\ op.name = "lookup"
           /\ op.key = op'.key
           /\ FoundIn(op, Cold)
           /\ ret = op.key
           /\ Above(scoreOf(CACHE, op.key), L2_THRESHOLD)) =>
             op'.key \notin Members(CACHE', Cold)]_vars

\* C29: under SpecConc no lookup is lost: as long as the entry stays in the
\* cache, the increment of every lookup of its key adds 1 to the entry's
\* access_count as it then is, so that k concurrent lookups leave it k
\* higher.
C29_NoLostLookup ==
    [][\A t \in DOMAIN calls :
          (/\ calls[t].pc = "ac_wr"
           /\ calls'[t].pc = "score"
           /\ Attached(CACHE, calls[t].key)
           /\ Attached(CACHE', calls[t].key)) =>
             Get(CACHE', calls[t].key).state.access_count =
                Get(CACHE, calls[t].key).state.access_count + 1]_vars

====
